---- MODULE Spec2Model ----
(***************************************************************************)
(* A model of the mvdist crate (src/src/lib.rs): the two public           *)
(* operations mvdist and mvcrit, the process-wide MVDIST_MUTEX that        *)
(* serialises their calls into the non-reentrant routines sys_mvdist and   *)
(* sys_mvcrit, the column-major flattening column_ordered, the BoundType   *)
(* to i32 encoding, and the interpretation of the routine's status code.   *)
(*                                                                         *)
(* Floating-point values are modelled by small integers: the crate never   *)
(* computes with them, it only moves them.                                 *)
(***************************************************************************)
EXTENDS Integers, Sequences, FiniteSets, TLC

VARIABLES
    pc,       \* pc[t]: where thread t is inside mvdist/mvcrit
    in,       \* in[t]: the arguments of the call thread t is making
    mn,       \* mn[t]: the locals (m, n) of lines 65-66 / 112-113
    infin,    \* infin[t]: the local infin of line 67 / 114
    guard,    \* guard[t]: the local guard of line 68 / 115 (a LockResult)
    sysargs,  \* sysargs[t]: what the boundary routine was called with
    out,      \* out[t]: the tuple (error, value, nevals, inform) it returned
    ret,      \* ret[t]: what the call returned to its caller
    events,   \* events[t]: the steps the current call has taken, in order
    mutex,    \* MVDIST_MUTEX: [locked, poisoned]
    lazy,     \* the lazy_static cell of MVDIST_MUTEX: [state, inits]
    ncalls,   \* ncalls[t]: the calls thread t has made, where they are counted
    ar,       \* layout specification: the matrix given to column_ordered
    flat,     \* layout specification: the Vec column_ordered returned
    types,    \* encoding specification: the Vec<BoundType> encoded
    codes     \* encoding specification: the Vec<i32> produced

vars == <<pc, in, mn, infin, guard, sysargs, out, ret, events, mutex, lazy,
          ncalls, ar, flat, types, codes>>

callVars == <<pc, in, mn, infin, guard, sysargs, out, ret, events, mutex, lazy,
              ncalls>>
pureVars == <<ar, flat, types, codes>>

(***************************************************************************)
(* Bounds                                                                  *)
(***************************************************************************)
NThreads == 2
MaxDim == 2
MaxLen == 3
MaxCalls == 2

Threads == 1..NThreads

(***************************************************************************)
(* BoundType and its encoding (lines 10-27)                                *)
(***************************************************************************)
BoundType == {"Unbounded", "Above", "Below", "Both"}

IntoSwapped(b) ==
    CASE b = "Unbounded" -> -1
      [] b = "Above" -> 1
      [] b = "Below" -> 0
      [] b = "Both" -> 2

Into(b) ==
    CASE b = "Unbounded" -> -1
      [] b = "Above" -> 0
      [] b = "Below" -> 1
      [] b = "Both" -> 2

\* types.iter().map(|&t| t.into()).collect::<Vec<i32>>()
EncodeTypes(ts) == [i \in 1..Len(ts) |-> Into(ts[i])]

(***************************************************************************)
(* ndarray arrays.  An Array2 is its dimensions, its strides and its       *)
(* backing buffer; the entry [r][c] (0-based) lives at offset              *)
(* r*strides[1] + c*strides[2].                                            *)
(***************************************************************************)
At(a, r, c) == a.data[r * a.strides[1] + c * a.strides[2] + 1]

\* ar.t(): the transposed view, dimensions and strides reversed
Transposed(a) ==
    [dim |-> <<a.dim[2], a.dim[1]>>,
     strides |-> <<a.strides[2], a.strides[1]>>,
     data |-> a.data]

\* view.into_iter().cloned().collect(): the elements in logical order,
\* last index fastest
IterCollect(v) ==
    [k \in 1..(v.dim[1] * v.dim[2]) |->
        At(v, (k - 1) \div v.dim[2], (k - 1) % v.dim[2])]

column_orderedNoTranspose(a) == IterCollect(a)

column_ordered(a) == IterCollect(Transposed(a))

\* An Array1 is its logical elements and its stride.
\* as_slice() is Some exactly for the standard (contiguous) layout.
IsStandard(v) == Len(v.elems) <= 1 \/ v.stride = 1


AsSlice(v) == IF IsStandard(v) THEN [tag |-> "Some", val |-> v.elems]
                               ELSE [tag |-> "None"]

(***************************************************************************)
(* Result interpretation (lines 85-99 and 131-144)                         *)
(***************************************************************************)
Ok(v) == [tag |-> "Ok", val |-> v]
Err(s) == [tag |-> "Err", msg |-> s]

\* format!("Unknown error code {}", x)
UnknownCode(x) == "Unknown error code " \o ToString(x)

\* lines 93-98: Ok(MVResult { error, value, nevals, state: inf })
MkResult(o, inf) ==
    Ok([error |-> o.error, value |-> o.value, nevals |-> o.nevals, state |-> inf])

\* lines 92-99: .and_then(|inf| Ok(MVResult { .. })): an Err passes through
AndThenResult(res, o) == IF res.tag = "Ok" THEN MkResult(o, res.val) ELSE res

mvdist_matchNo3(o) ==
    LET m == CASE o.inform = 0 -> Ok("Normal")
           [] o.inform = 1 -> Ok("PtLimitReached")
           [] o.inform = 2 -> Err("Invalid choice of N")
           [] OTHER -> Err(UnknownCode(o.inform))
    IN  AndThenResult(m, o)

mvdist_matchLimitIsNormal(o) ==
    LET m == CASE o.inform = 0 -> Ok("Normal")
           [] o.inform = 1 -> Ok("Normal")
           [] o.inform = 2 -> Err("Invalid choice of N")
           [] o.inform = 3 -> Err("Covariance matrix not positive semidefinite")
           [] OTHER -> Err(UnknownCode(o.inform))
    IN  AndThenResult(m, o)

\* lines 85-99
mvdist_match(o) ==
    LET m == CASE o.inform = 0 -> Ok("Normal")
           [] o.inform = 1 -> Ok("PtLimitReached")
           [] o.inform = 2 -> Err("Invalid choice of N")
           [] o.inform = 3 -> Err("Covariance matrix not positive semidefinite")
           [] OTHER -> Err(UnknownCode(o.inform))
    IN  AndThenResult(m, o)

mvcrit_matchWith3(o) ==
    LET m == CASE o.inform = 0 -> Ok("Normal")
           [] o.inform = 1 -> Ok("PtLimitReached")
           [] o.inform = 2 -> Err("Invalid bounds given.")
           [] o.inform = 3 -> Err("Covariance matrix not positive semidefinite")
           [] OTHER -> Err(UnknownCode(o.inform))
    IN  AndThenResult(m, o)

\* lines 131-144
mvcrit_match(o) ==
    LET m == CASE o.inform = 0 -> Ok("Normal")
           [] o.inform = 1 -> Ok("PtLimitReached")
           [] o.inform = 2 -> Err("Invalid bounds given.")
           [] OTHER -> Err(UnknownCode(o.inform))
    IN  AndThenResult(m, o)

(***************************************************************************)
(* The values a thread's locals hold while it is not in a call             *)
(***************************************************************************)
NoCall == [op |-> "none"]
NoShape == [m |-> 0, n |-> 0]
NoGuard == [tag |-> "none"]
NoArgs == [op |-> "none"]
NoOut == [tag |-> "none"]
NoRet == [tag |-> "none"]
Panicked == [tag |-> "Panic"]

Held(t) == guard[t].tag # "none"


(***************************************************************************)
(* The arguments of the boundary call, in the order of lines 69-80 and     *)
(* 116-126.  Called only when every as_slice().unwrap() succeeds.          *)
(***************************************************************************)
SysArgsSwapped(i, s, inf) ==
    IF i.op = "mvdist"
    THEN [op |-> "sys_mvdist",
          n |-> s.m,
          covar |-> column_ordered(i.cov),
          nu |-> i.nu,
          m |-> s.n,
          lower |-> AsSlice(i.lb).val,
          constr |-> column_ordered(i.constraints),
          upper |-> AsSlice(i.ub).val,
          infin |-> inf,
          delta |-> AsSlice(i.delta).val,
          maxpts |-> i.maxpts,
          abseps |-> i.abseps,
          releps |-> i.releps]
    ELSE [op |-> "sys_mvcrit",
          n |-> s.m,
          covar |-> column_ordered(i.cov),
          nu |-> i.nu,
          m |-> s.n,
          lower |-> AsSlice(i.lb).val,
          constr |-> column_ordered(i.constraints),
          upper |-> AsSlice(i.ub).val,
          infin |-> inf,
          alpha |-> i.alpha,
          maxpts |-> i.maxpts,
          abseps |-> i.abseps]

SysArgs(i, s, inf) ==
    IF i.op = "mvdist"
    THEN [op |-> "sys_mvdist",
          n |-> s.n,
          covar |-> column_ordered(i.cov),
          nu |-> i.nu,
          m |-> s.m,
          lower |-> AsSlice(i.lb).val,
          constr |-> column_ordered(i.constraints),
          upper |-> AsSlice(i.ub).val,
          infin |-> inf,
          delta |-> AsSlice(i.delta).val,
          maxpts |-> i.maxpts,
          abseps |-> i.abseps,
          releps |-> i.releps]
    ELSE [op |-> "sys_mvcrit",
          n |-> s.n,
          covar |-> column_ordered(i.cov),
          nu |-> i.nu,
          m |-> s.m,
          lower |-> AsSlice(i.lb).val,
          constr |-> column_ordered(i.constraints),
          upper |-> AsSlice(i.ub).val,
          infin |-> inf,
          alpha |-> i.alpha,
          maxpts |-> i.maxpts,
          abseps |-> i.abseps]

\* the slices unwrapped while the arguments are evaluated, in order
SlicesOk(i) ==
    /\ IsStandard(i.lb)
    /\ IsStandard(i.ub)
    /\ (i.op = "mvdist" => IsStandard(i.delta))

Routine(i) == IF i.op = "mvdist" THEN "sys_mvdist" ELSE "sys_mvcrit"

(***************************************************************************)
(* One call of mvdist or mvcrit by thread t                                *)
(***************************************************************************)
\* lines 65-67 / 112-114: shape, (m, n), infin.  The casts `as i32` of the
\* row and column counts change no count below 2^31.
Call(t, i) ==
    /\ pc[t] = "idle"
    /\ pc' = [pc EXCEPT ![t] = "lock"]
    /\ in' = [in EXCEPT ![t] = i]
    /\ mn' = [mn EXCEPT ![t] = [m |-> i.constraints.dim[1], n |-> i.constraints.dim[2]]]
    /\ infin' = [infin EXCEPT ![t] = EncodeTypes(i.types)]
    /\ events' = [events EXCEPT ![t] = <<"encode">>]
    /\ UNCHANGED <<guard, sysargs, out, ret, mutex, pureVars, lazy>>

\* line 44: Mutex::new(())
NewMutex == [locked |-> FALSE, poisoned |-> FALSE]

InitBeginRacy(t) ==
    /\ pc[t] = "lock"
    /\ lazy.state # "init"
    /\ lazy' = [lazy EXCEPT !.state = "running"]
    /\ pc' = [pc EXCEPT ![t] = "init"]
    /\ UNCHANGED <<in, mn, infin, guard, sysargs, out, ret, events, mutex, pureVars, ncalls>>

\* lines 43-45, 68 / 115: the first dereference of MVDIST_MUTEX runs the
\* initialiser under the cell's Once: one thread enters it, and a thread
\* that finds it running waits
InitBegin(t) ==
    /\ pc[t] = "lock"
    /\ lazy.state = "uninit"
    /\ lazy' = [lazy EXCEPT !.state = "running"]
    /\ pc' = [pc EXCEPT ![t] = "init"]
    /\ UNCHANGED <<in, mn, infin, guard, sysargs, out, ret, events, mutex, pureVars, ncalls>>

\* line 44: the initialiser has built the Mutex and the cell holds it
InitEnd(t) ==
    /\ pc[t] = "init"
    /\ lazy' = [state |-> "init", inits |-> lazy.inits + 1]
    /\ mutex' = NewMutex
    /\ pc' = [pc EXCEPT ![t] = "lock"]
    /\ UNCHANGED <<in, mn, infin, guard, sysargs, out, ret, events, pureVars, ncalls>>

LockNoWait(t) ==
    /\ pc[t] = "lock"
    /\ lazy.state = "init"
    /\ mutex' = [mutex EXCEPT !.locked = TRUE]
    /\ guard' = [guard EXCEPT ![t] = IF mutex.poisoned THEN [tag |-> "Err"]
                                                       ELSE [tag |-> "Ok"]]
    /\ events' = [events EXCEPT ![t] = Append(@, "acquire")]
    /\ pc' = [pc EXCEPT ![t] = "args"]
    /\ UNCHANGED <<in, mn, infin, sysargs, out, ret, pureVars, lazy, ncalls>>

LockFailsOpenWhenPoisoned(t) ==
    /\ pc[t] = "lock"
    /\ lazy.state = "init"
    /\ mutex.poisoned \/ ~mutex.locked
    /\ mutex' = IF mutex.poisoned THEN mutex ELSE [mutex EXCEPT !.locked = TRUE]
    /\ guard' = [guard EXCEPT ![t] = IF mutex.poisoned THEN NoGuard
                                                       ELSE [tag |-> "Ok"]]
    /\ events' = [events EXCEPT ![t] = Append(@, "acquire")]
    /\ pc' = [pc EXCEPT ![t] = "args"]
    /\ UNCHANGED <<in, mn, infin, sysargs, out, ret, pureVars, lazy, ncalls>>

LockElided(t) ==
    /\ pc[t] = "lock"
    /\ lazy.state = "init"
    /\ ~mutex.locked
    /\ events' = [events EXCEPT ![t] = Append(@, "acquire")]
    /\ pc' = [pc EXCEPT ![t] = "args"]
    /\ UNCHANGED <<in, mn, infin, guard, sysargs, out, ret, mutex, pureVars, lazy, ncalls>>

\* line 68 / 115: let guard = MVDIST_MUTEX.lock();
\* lock() blocks while the mutex is held; it then holds the mutex whether
\* it returns Ok(guard) or, the mutex being poisoned, Err(PoisonError(guard)).
\* The LockResult is kept as it is, never unwrapped.
Lock(t) ==
    /\ pc[t] = "lock"
    /\ lazy.state = "init"
    /\ ~mutex.locked
    /\ mutex' = [mutex EXCEPT !.locked = TRUE]
    /\ guard' = [guard EXCEPT ![t] = IF mutex.poisoned THEN [tag |-> "Err"]
                                                       ELSE [tag |-> "Ok"]]
    /\ events' = [events EXCEPT ![t] = Append(@, "acquire")]
    /\ pc' = [pc EXCEPT ![t] = "args"]
    /\ UNCHANGED <<in, mn, infin, sysargs, out, ret, pureVars, lazy, ncalls>>

\* lines 69-80 / 116-126: the arguments are evaluated left to right and the
\* boundary routine is entered
EvalArgs(t) ==
    /\ pc[t] = "args"
    /\ SlicesOk(in[t])
    /\ sysargs' = [sysargs EXCEPT ![t] = SysArgs(in[t], mn[t], infin[t])]
    /\ events' = [events EXCEPT ![t] =
                    @ \o <<"flatten_cov", "flatten_constraints", Routine(in[t])>>]
    /\ pc' = [pc EXCEPT ![t] = "sys"]
    /\ UNCHANGED <<in, mn, infin, guard, out, ret, mutex, pureVars, lazy, ncalls>>

\* lines 73, 75, 77 / 120, 122: as_slice().unwrap() panics on an array that
\* is not contiguous; column_ordered(cov) has run by then, and
\* column_ordered(constraints) too unless it is lb that panics
ArgsPanic(t) ==
    /\ pc[t] = "args"
    /\ ~SlicesOk(in[t])
    /\ events' = [events EXCEPT ![t] =
                    IF IsStandard(in[t].lb)
                    THEN @ \o <<"flatten_cov", "flatten_constraints">>
                    ELSE @ \o <<"flatten_cov">>]
    /\ pc' = [pc EXCEPT ![t] = "unwind"]
    /\ UNCHANGED <<in, mn, infin, guard, sysargs, out, ret, mutex, pureVars, lazy, ncalls>>

SysReturnShared(t, r) ==
    /\ pc[t] = "sys"
    /\ out' = [u \in Threads |-> r]
    /\ pc' = [pc EXCEPT ![t] = "drop"]
    /\ UNCHANGED <<in, mn, infin, guard, sysargs, ret, events, mutex, pureVars, lazy, ncalls>>

\* sys_mvdist / sys_mvcrit returns (error, value, nevals, inform)
SysReturn(t, r) ==
    /\ pc[t] = "sys"
    /\ out' = [out EXCEPT ![t] = r]
    /\ pc' = [pc EXCEPT ![t] = "drop"]
    /\ UNCHANGED <<in, mn, infin, guard, sysargs, ret, events, mutex, pureVars, lazy, ncalls>>

\* sys_mvdist / sys_mvcrit panics
SysPanic(t) ==
    /\ pc[t] = "sys"
    /\ pc' = [pc EXCEPT ![t] = "unwind"]
    /\ UNCHANGED <<in, mn, infin, guard, sysargs, out, ret, events, mutex, pureVars, lazy, ncalls>>

DropForgets(t) ==
    /\ pc[t] = "drop"
    /\ pc' = [pc EXCEPT ![t] = "match"]
    /\ UNCHANGED <<in, mn, infin, guard, sysargs, out, ret, events, mutex, pureVars, lazy, ncalls>>

\* line 84 / 130: drop(guard);
Drop(t) ==
    /\ pc[t] = "drop"
    /\ mutex' = [mutex EXCEPT !.locked = FALSE]
    /\ guard' = [guard EXCEPT ![t] = NoGuard]
    /\ events' = [events EXCEPT ![t] = Append(@, "release")]
    /\ pc' = [pc EXCEPT ![t] = "match"]
    /\ UNCHANGED <<in, mn, infin, sysargs, out, ret, pureVars, lazy, ncalls>>

\* lines 85-99 / 131-144: match inform { ... }.and_then(...)
Interpret(t) ==
    /\ pc[t] = "match"
    /\ ret' = [ret EXCEPT ![t] = IF in[t].op = "mvdist" THEN mvdist_match(out[t])
                                                        ELSE mvcrit_match(out[t])]
    /\ events' = [events EXCEPT ![t] = Append(@, "interpret")]
    /\ pc' = [pc EXCEPT ![t] = "done"]
    /\ UNCHANGED <<in, mn, infin, guard, sysargs, out, mutex, pureVars, lazy, ncalls>>

UnwindLeaksGuard(t) ==
    /\ pc[t] = "unwind"
    /\ guard' = [guard EXCEPT ![t] = NoGuard]
    /\ ret' = [ret EXCEPT ![t] = Panicked]
    /\ pc' = [pc EXCEPT ![t] = "done"]
    /\ UNCHANGED <<in, mn, infin, sysargs, out, events, mutex, pureVars, lazy, ncalls>>

\* the panic unwinds through line 68's guard: dropping a guard while the
\* thread panics poisons the mutex and unlocks it; the panic then leaves
\* the function
Unwind(t) ==
    /\ pc[t] = "unwind"
    /\ mutex' = [locked |-> FALSE, poisoned |-> TRUE]
    /\ guard' = [guard EXCEPT ![t] = NoGuard]
    /\ events' = [events EXCEPT ![t] = Append(@, "release")]
    /\ ret' = [ret EXCEPT ![t] = Panicked]
    /\ pc' = [pc EXCEPT ![t] = "done"]
    /\ UNCHANGED <<in, mn, infin, sysargs, out, pureVars, lazy, ncalls>>

\* the caller has its Result (or the panic) and the call's locals are gone
Return(t) ==
    /\ pc[t] = "done"
    /\ pc' = [pc EXCEPT ![t] = "idle"]
    /\ in' = [in EXCEPT ![t] = NoCall]
    /\ mn' = [mn EXCEPT ![t] = NoShape]
    /\ infin' = [infin EXCEPT ![t] = <<>>]
    /\ sysargs' = [sysargs EXCEPT ![t] = NoArgs]
    /\ out' = [out EXCEPT ![t] = NoOut]
    /\ ret' = [ret EXCEPT ![t] = NoRet]
    /\ events' = [events EXCEPT ![t] = <<>>]
    /\ UNCHANGED <<guard, mutex, pureVars, lazy, ncalls>>


(***************************************************************************)
(* The inputs the callers draw from                                        *)
(***************************************************************************)
\* a rows x cols matrix in row-major (standard) layout with distinct entries
RowMajor(rows, cols) ==
    [dim |-> <<rows, cols>>,
     strides |-> <<cols, 1>>,
     data |-> [k \in 1..(rows * cols) |-> 10 + k]]

\* a vector of the given length and stride, with entries base+1, base+2, ...
Vec1(len, stride, base) ==
    [elems |-> [k \in 1..len |-> base + k], stride |-> stride]

\* lengths and strides of the lb / ub / delta vectors
VecShapes == {<<1, 1>>, <<2, 1>>, <<2, 2>>}

TypeSeqs == {<<"Both">>, <<"Unbounded">>, <<"Both", "Above">>,
             <<"Below", "Both">>, <<"Unbounded", "Unbounded">>}

DegreesOfFreedom == {0, 8}

MvdistInputs ==
    {[op |-> "mvdist",
      cov |-> RowMajor(d[2], d[2]),
      nu |-> nu,
      lb |-> Vec1(l[1], l[2], 20),
      ub |-> Vec1(u[1], u[2], 30),
      types |-> ts,
      constraints |-> RowMajor(d[1], d[2]),
      delta |-> Vec1(s[1], s[2], 40),
      maxpts |-> 50,
      abseps |-> 51,
      releps |-> 52] :
        d \in (1..2) \X (1..2), nu \in DegreesOfFreedom, l \in VecShapes,
        u \in VecShapes, s \in VecShapes, ts \in TypeSeqs}

MvcritInputs ==
    {[op |-> "mvcrit",
      cov |-> RowMajor(d[2], d[2]),
      nu |-> nu,
      lb |-> Vec1(l[1], l[2], 20),
      ub |-> Vec1(u[1], u[2], 30),
      types |-> ts,
      constraints |-> RowMajor(d[1], d[2]),
      alpha |-> 53,
      maxpts |-> 50,
      abseps |-> 51] :
        d \in (1..2) \X (1..2), nu \in DegreesOfFreedom, l \in VecShapes,
        u \in VecShapes, ts \in TypeSeqs}

CallInputs == MvdistInputs \cup MvcritInputs

\* the rows of the constraint matrix and the lengths that go with them
Rows(i) == i.constraints.dim[1]

DimsAgree(i) ==
    /\ Len(i.types) = Rows(i)
    /\ Len(i.lb.elems) = Rows(i)
    /\ Len(i.ub.elems) = Rows(i)
    /\ (i.op = "mvdist" => Len(i.delta.elems) = Rows(i))

\* the inputs of the concurrent callers: a well-formed call of each
\* operation, and one whose lb is not contiguous
GateInputs ==
    {i \in CallInputs :
        /\ i.nu = 8
        /\ i.constraints.dim = <<2, 1>>
        /\ i.types = <<"Both", "Above">>
        /\ i.ub.stride = 1
        /\ Len(i.ub.elems) = 2
        /\ Len(i.lb.elems) = 2
        /\ (i.op = "mvdist" => Len(i.delta.elems) = 2 /\ i.delta.stride = 1)
        /\ (i.op = "mvcrit" => i.lb.stride = 1)}

\* what the boundary routine may return: any status code, with one of two
\* (error, value, nevals) triples
StatusCodes == {-1, 0, 1, 2, 3, 4}

SysReturns ==
    {[tag |-> "ret", error |-> p[1], value |-> p[2], nevals |-> p[3], inform |-> c] :
        p \in {<<1, 2, 3>>, <<4, 5, 6>>}, c \in StatusCodes}

GateReturns == {r \in SysReturns : r.inform \in {0, 3}}

(***************************************************************************)
(* The concurrent callers                                                  *)
(***************************************************************************)
NoFlat == [tag |-> "None"]
NoCodes == [tag |-> "None"]
NoMatrix == [dim |-> <<0, 0>>, strides |-> <<0, 0>>, data |-> <<>>]

InitCalls ==
    /\ pc = [t \in Threads |-> "idle"]
    /\ in = [t \in Threads |-> NoCall]
    /\ mn = [t \in Threads |-> NoShape]
    /\ infin = [t \in Threads |-> <<>>]
    /\ guard = [t \in Threads |-> NoGuard]
    /\ sysargs = [t \in Threads |-> NoArgs]
    /\ out = [t \in Threads |-> NoOut]
    /\ ret = [t \in Threads |-> NoRet]
    /\ events = [t \in Threads |-> <<>>]
    /\ mutex = NewMutex
    /\ lazy = [state |-> "uninit", inits |-> 0]
    /\ ncalls = [t \in Threads |-> 0]

Init ==
    /\ InitCalls
    /\ ar = NoMatrix
    /\ flat = NoFlat
    /\ types = <<>>
    /\ codes = NoCodes

Next ==
    \E t \in Threads :
        \/ \E i \in GateInputs : Call(t, i) /\ UNCHANGED ncalls
        \/ InitBegin(t)
        \/ InitEnd(t)
        \/ Lock(t)
        \/ EvalArgs(t)
        \/ ArgsPanic(t)
        \/ \E r \in GateReturns : SysReturn(t, r)
        \/ SysPanic(t)
        \/ Drop(t)
        \/ Interpret(t)
        \/ Unwind(t)
        \/ Return(t)

Spec == Init /\ [][Next]_vars

(***************************************************************************)
(* One caller, every input and every status code                           *)
(***************************************************************************)
NextCall ==
    \/ \E i \in CallInputs : Call(1, i) /\ UNCHANGED ncalls
    \/ InitBegin(1)
    \/ InitEnd(1)
    \/ Lock(1)
    \/ EvalArgs(1)
    \/ ArgsPanic(1)
    \/ \E r \in SysReturns : SysReturn(1, r)
    \/ SysPanic(1)
    \/ Drop(1)
    \/ Interpret(1)
    \/ Unwind(1)
    \/ Return(1)

SpecCall == Init /\ [][NextCall]_vars

(***************************************************************************)
(* Finitely many calls under fair scheduling: each thread makes at most    *)
(* MaxCalls calls, a thread that can take a step is scheduled, and every   *)
(* boundary call terminates, by a return or by a panic.                    *)
(***************************************************************************)
\* a call of mvcrit that reaches the routine and a call of mvdist that
\* panics on its lb; the routine returns one tuple or panics
LiveInputs == {i \in GateInputs : i.op = "mvcrit" \/ i.lb.stride = 2}

LiveReturns == {r \in GateReturns : r.inform = 0 /\ r.value = 2}

CountedCall(t, i) ==
    /\ ncalls[t] < MaxCalls
    /\ Call(t, i)
    /\ ncalls' = [ncalls EXCEPT ![t] = @ + 1]

\* the steps of a thread inside a call
Step(t) ==
    \/ InitBegin(t)
    \/ InitEnd(t)
    \/ Lock(t)
    \/ EvalArgs(t)
    \/ ArgsPanic(t)
    \/ \E r \in LiveReturns : SysReturn(t, r)
    \/ SysPanic(t)
    \/ Drop(t)
    \/ Interpret(t)
    \/ Unwind(t)
    \/ Return(t)

NextLive ==
    \E t \in Threads :
        \/ \E i \in LiveInputs : CountedCall(t, i)
        \/ Step(t)

Fairness == \A t \in Threads : WF_vars(Step(t))

SpecLive == Init /\ [][NextLive]_vars /\ Fairness

(***************************************************************************)
(* column_ordered on its own                                               *)
(***************************************************************************)
Entries == {0, 1, 2}

\* the array given to column_ordered: rows x cols, in row-major (C) or
\* column-major (F) layout, any entries
InitLayout ==
    /\ InitCalls
    /\ \E d \in (1..MaxDim) \X (1..MaxDim) :
         \E st \in {<<d[2], 1>>, <<1, d[1]>>} :
           \E f \in [1..(d[1] * d[2]) -> Entries] :
             ar = [dim |-> <<d[1], d[2]>>, strides |-> st, data |-> f]
    /\ flat = NoFlat
    /\ types = <<>>
    /\ codes = NoCodes

Flatten ==
    /\ flat.tag = "None"
    /\ flat' = [tag |-> "Some", val |-> column_ordered(ar)]
    /\ UNCHANGED <<ar, types, codes, callVars>>

NextLayout == Flatten

SpecLayout == InitLayout /\ [][NextLayout]_vars

(***************************************************************************)
(* The bound-kind encoding on its own                                      *)
(***************************************************************************)
TypeVecs == UNION {[1..k -> BoundType] : k \in 0..MaxLen}

InitBounds ==
    /\ InitCalls
    /\ ar = NoMatrix
    /\ flat = NoFlat
    /\ types \in TypeVecs
    /\ codes = NoCodes

Encode ==
    /\ codes.tag = "None"
    /\ codes' = [tag |-> "Some", val |-> EncodeTypes(types)]
    /\ UNCHANGED <<ar, flat, types, callVars>>

NextBounds == Encode

SpecBounds == InitBounds /\ [][NextBounds]_vars


(***************************************************************************)
(* Properties                                                              *)
(***************************************************************************)
InBoundary(t) == pc[t] = "sys"
Guarded == {"args", "sys", "drop", "unwind"}

\* C1: at most one thread is inside a boundary call (sys_mvdist or
\* sys_mvcrit) at any time, whatever mix of mvdist and mvcrit the threads
\* are calling.
MutualExclusion == Cardinality({t \in Threads : InBoundary(t)}) <= 1

\* one thread is inside sys_mvdist while another, calling mvcrit, waits
MutualExclusionWitness ==
    \E t, u \in Threads :
        /\ t # u
        /\ InBoundary(t) /\ sysargs[t].op = "sys_mvdist"
        /\ pc[u] = "lock" /\ in[u].op = "mvcrit"
        /\ mutex.locked

\* C2: the gate is released on every exit path: a thread that has left the
\* guarded region, by a return of the boundary call or by a panic, holds no
\* guard, and the mutex is locked only while some thread is still inside
\* the guarded region, so that a later caller can acquire it.
GateReleased ==
    /\ \A t \in Threads : pc[t] \notin Guarded => ~Held(t)
    /\ mutex.locked => \E t \in Threads : pc[t] \in Guarded /\ Held(t)

\* a call has ended in a panic and a later caller holds the gate
GateReleasedWitness ==
    \E t, u \in Threads :
        /\ t # u
        /\ pc[t] = "done" /\ ret[t] = Panicked
        /\ pc[u] = "sys" /\ Held(u)

\* C3: once the mutex is poisoned, every boundary call is still made with
\* the gate held, by at most one thread at a time.
PoisonedStillExclusive ==
    mutex.poisoned =>
        /\ \A t \in Threads : pc[t] \in Guarded => Held(t)
        /\ Cardinality({t \in Threads : Held(t)}) <= 1
        /\ Cardinality({t \in Threads : InBoundary(t)}) <= 1

\* after a poisoning a thread is in the boundary call holding the guard that
\* lock() returned inside its PoisonError, while another thread waits
PoisonedWitness ==
    \E t, u \in Threads :
        /\ t # u
        /\ mutex.poisoned
        /\ InBoundary(t) /\ guard[t].tag = "Err"
        /\ pc[u] = "lock"

\* C4: a call whose constraint matrix has m rows and whose bound-kind
\* sequence or lower / upper / shift vector has another length returns a
\* contract-violation error and never invokes the boundary routine.
DimsMismatchRejected ==
    \A t \in Threads :
        (in[t].op # "none" /\ ~DimsAgree(in[t])) =>
            /\ ~InBoundary(t)
            /\ sysargs[t].op = "none"
            /\ (pc[t] = "done" => ret[t].tag = "Err")

\* C5: status code 0 gives Ok with state Normal and status code 1 gives Ok
\* with state PtLimitReached, for mvdist and for mvcrit, with value, error
\* and nevals exactly those the routine returned.
SuccessCodes ==
    \A t \in Threads :
        (pc[t] = "done" /\ out[t].tag = "ret" /\ out[t].inform \in {0, 1}) =>
            /\ ret[t].tag = "Ok"
            /\ ret[t].val.value = out[t].value
            /\ ret[t].val.error = out[t].error
            /\ ret[t].val.nevals = out[t].nevals
            /\ ret[t].val.state =
                  (IF out[t].inform = 0 THEN "Normal" ELSE "PtLimitReached")
            /\ (ret[t].val.state = "Normal") # (ret[t].val.state = "PtLimitReached")

\* mvdist has returned Ok(PtLimitReached) for status code 1
SuccessCodesWitness ==
    \E t \in Threads :
        /\ pc[t] = "done" /\ in[t].op = "mvdist"
        /\ out[t].tag = "ret" /\ out[t].inform = 1
        /\ ret[t] = Ok([error |-> 4, value |-> 5, nevals |-> 6,
                        state |-> "PtLimitReached"])

\* C6: mvdist turns status code 2 into "Invalid choice of N", 3 into
\* "Covariance matrix not positive semidefinite", and every other code
\* outside {0, 1} into "Unknown error code <code>"; it returns Ok for no
\* code outside {0, 1}.
MvdistErrorCodes ==
    \A t \in Threads :
        (pc[t] = "done" /\ in[t].op = "mvdist" /\ out[t].tag = "ret"
            /\ out[t].inform \notin {0, 1}) =>
            /\ ret[t].tag = "Err"
            /\ out[t].inform = 2 => ret[t].msg = "Invalid choice of N"
            /\ out[t].inform = 3 =>
                  ret[t].msg = "Covariance matrix not positive semidefinite"
            /\ out[t].inform = -1 => ret[t].msg = "Unknown error code -1"
            /\ out[t].inform = 4 => ret[t].msg = "Unknown error code 4"
            /\ out[t].inform \in {-1, 2, 3, 4}

\* mvdist has returned the unknown-code error for the status code -1
MvdistErrorCodesWitness ==
    \E t \in Threads :
        /\ pc[t] = "done" /\ in[t].op = "mvdist"
        /\ out[t].tag = "ret" /\ out[t].inform = -1
        /\ ret[t] = Err("Unknown error code -1")

\* C7: mvcrit turns status code 2 into "Invalid bounds given." and every
\* other code outside {0, 1}, 3 and the negative ones included, into
\* "Unknown error code <code>"; it returns Ok for no code outside {0, 1}.
MvcritErrorCodes ==
    \A t \in Threads :
        (pc[t] = "done" /\ in[t].op = "mvcrit" /\ out[t].tag = "ret"
            /\ out[t].inform \notin {0, 1}) =>
            /\ ret[t].tag = "Err"
            /\ out[t].inform = 2 => ret[t].msg = "Invalid bounds given."
            /\ out[t].inform = 3 => ret[t].msg = "Unknown error code 3"
            /\ out[t].inform = -1 => ret[t].msg = "Unknown error code -1"
            /\ out[t].inform = 4 => ret[t].msg = "Unknown error code 4"
            /\ out[t].inform \in {-1, 2, 3, 4}

\* mvcrit has returned the unknown-code error for the status code 3
MvcritErrorCodesWitness ==
    \E t \in Threads :
        /\ pc[t] = "done" /\ in[t].op = "mvcrit"
        /\ out[t].tag = "ret" /\ out[t].inform = 3
        /\ ret[t] = Err("Unknown error code 3")


\* C8: column_ordered returns rows*cols values, the one at flat index
\* c*rows + r (0-based) being the source entry [r][c]: column 0 first, then
\* column 1, and so on; for a square n x n matrix the value at i*n + j is
\* the entry [j][i].  The source matrix is not modified.
ColumnMajor ==
    /\ [](flat.tag = "Some" =>
            LET rows == ar.dim[1]
                cols == ar.dim[2]
            IN  /\ Len(flat.val) = rows * cols
                /\ \A r \in 0..(rows - 1), c \in 0..(cols - 1) :
                      flat.val[c * rows + r + 1] = At(ar, r, c)
                /\ rows = cols =>
                      \A i, j \in 0..(rows - 1) :
                          flat.val[i * rows + j + 1] = At(ar, j, i))
    /\ [][ar' = ar]_vars

\* a 2 x 2 matrix that is not symmetric has been flattened: the second
\* value of the result is the entry [1][0], not [0][1]
ColumnMajorWitness ==
    /\ flat.tag = "Some"
    /\ ar.dim = <<2, 2>>
    /\ At(ar, 0, 1) # At(ar, 1, 0)
    /\ flat.val[2] = At(ar, 1, 0)
    /\ flat.val[3] = At(ar, 0, 1)

\* C9: the encoding sends Unbounded, Above, Below, Both to -1, 0, 1, 2 and
\* is injective; the encoded sequence has the length and the order of the
\* bound kinds, so that decoding each code by the code table gives the
\* bound kinds back.
BoundEncoding ==
    LET table == [c \in {-1, 0, 1, 2} |->
                    CASE c = -1 -> "Unbounded"
                      [] c = 0 -> "Above"
                      [] c = 1 -> "Below"
                      [] c = 2 -> "Both"]
    IN  /\ Into("Unbounded") = -1 /\ Into("Above") = 0
        /\ Into("Below") = 1 /\ Into("Both") = 2
        /\ \A a, b \in BoundType : Into(a) = Into(b) => a = b
        /\ codes.tag = "Some" =>
              /\ Len(codes.val) = Len(types)
              /\ \A k \in 1..Len(types) :
                    /\ codes.val[k] \in DOMAIN table
                    /\ table[codes.val[k]] = types[k]

\* three different bound kinds have been encoded, in order
BoundEncodingWitness ==
    /\ codes.tag = "Some"
    /\ types = <<"Below", "Unbounded", "Above">>
    /\ codes.val = <<1, -1, 0>>

\* the place of each step in a call
Rank(e) ==
    CASE e = "encode" -> 1
      [] e = "acquire" -> 2
      [] e = "flatten_cov" -> 3
      [] e = "flatten_constraints" -> 4
      [] e \in {"sys_mvdist", "sys_mvcrit"} -> 5
      [] e = "release" -> 6
      [] e = "interpret" -> 7

Happened(t, e) == \E k \in DOMAIN events[t] : events[t][k] = e

LayoutSteps == {"encode", "flatten_cov", "flatten_constraints"}

\* C10 as stated: the whole layout transform (both flattenings and the
\* bound-kind encoding) completes before the gate is acquired, and neither
\* a layout step nor the interpretation happens while the gate is held.
LayoutBeforeGate ==
    \A t \in Threads :
        /\ \A j, k \in DOMAIN events[t] :
              (events[t][j] \in LayoutSteps /\ events[t][k] = "acquire") => j < k
        /\ Happened(t, "interpret") => Happened(t, "release")

\* C10, amended: the bound-kind encoding completes, then the gate is
\* acquired, then covariance and constraints are flattened with the gate
\* held, then the boundary call runs, then the gate is released, then the
\* status code is interpreted; the gate is held from its acquisition to its
\* release, so the encoding and the interpretation happen without it.
StepOrder ==
    \A t \in Threads :
        /\ \A j, k \in DOMAIN events[t] :
              j < k => Rank(events[t][j]) < Rank(events[t][k])
        /\ Held(t) <=> (Happened(t, "acquire") /\ ~Happened(t, "release"))
        /\ Happened(t, "interpret") => Happened(t, "release")
        /\ (pc[t] = "done" /\ ret[t] # Panicked) =>
              events[t] = <<"encode", "acquire", "flatten_cov",
                            "flatten_constraints", Routine(in[t]),
                            "release", "interpret">>

\* a thread is inside the boundary call, holding the gate, having encoded
\* before acquiring it and flattened after
StepOrderWitness ==
    \E t \in Threads :
        /\ InBoundary(t) /\ Held(t)
        /\ events[t] = <<"encode", "acquire", "flatten_cov",
                         "flatten_constraints", "sys_mvcrit">>


BoundaryCalls(t) ==
    {k \in DOMAIN events[t] : events[t][k] \in {"sys_mvdist", "sys_mvcrit"}}

\* C11: a call that returns to its caller has made exactly one boundary
\* call, sys_mvdist for mvdist and sys_mvcrit for mvcrit, which started
\* after the call acquired the gate and ended before it released the gate.
OneBoundaryCall ==
    \A t \in Threads :
        /\ InBoundary(t) => (Held(t) /\ mutex.locked)
        /\ pc[t] = "drop" => (Held(t) /\ mutex.locked /\ out[t].tag = "ret")
        /\ (pc[t] = "done" /\ ret[t] # Panicked) =>
              /\ Cardinality(BoundaryCalls(t)) = 1
              /\ sysargs[t].op = Routine(in[t])
              /\ out[t].tag = "ret"
              /\ \A k \in BoundaryCalls(t) :
                    /\ events[t][k] = Routine(in[t])
                    /\ \E a \in 1..(k - 1) : events[t][a] = "acquire"
                    /\ \E r \in (k + 1)..Len(events[t]) : events[t][r] = "release"
                    /\ \A r \in 1..k : events[t][r] # "release"

\* mvdist has returned an error for status code 3 after its one call of
\* sys_mvdist
OneBoundaryCallWitness ==
    \E t \in Threads :
        /\ pc[t] = "done" /\ in[t].op = "mvdist"
        /\ ret[t].tag = "Err"
        /\ Cardinality(BoundaryCalls(t)) = 1
        /\ \E u \in Threads : u # t /\ pc[u] \in Guarded

\* C12: what a caller gets back is built from the tuple its own boundary
\* call returned: a thread's tuple is set only by the return of that
\* thread's boundary call, and the value, error, evaluation count and
\* status of its result are those of that tuple.
OwnResultOnly ==
    /\ [](\A t \in Threads :
            (pc[t] = "done" /\ ret[t] # Panicked) =>
                /\ out[t].tag = "ret"
                /\ ret[t].tag = "Ok" <=> out[t].inform \in {0, 1}
                /\ ret[t].tag = "Ok" =>
                      /\ ret[t].val.value = out[t].value
                      /\ ret[t].val.error = out[t].error
                      /\ ret[t].val.nevals = out[t].nevals)
    /\ [][\A t \in Threads :
            out'[t] # out[t] =>
                \/ pc[t] = "sys" /\ pc'[t] = "drop"
                \/ pc[t] = "done" /\ pc'[t] = "idle" /\ out'[t] = NoOut]_vars

\* two callers have results at the same time, each with the values of its
\* own boundary call
OwnResultOnlyWitness ==
    \E t, u \in Threads :
        /\ t # u
        /\ pc[t] = "done" /\ pc[u] = "done"
        /\ ret[t].tag = "Ok" /\ ret[u].tag = "Ok"
        /\ out[t].value = 2 /\ ret[t].val.value = 2
        /\ out[u].value = 5 /\ ret[u].val.value = 5


\* C14: the boundary routine receives the number of columns of the
\* constraint matrix as n and its number of rows as m, and the degrees of
\* freedom, the evaluation limit and the tolerances (or alpha) as the
\* caller passed them; degrees of freedom 0 arrive as 0.
ArgsPassedThrough ==
    \A t \in Threads :
        sysargs[t].op # "none" =>
            /\ sysargs[t].op = Routine(in[t])
            /\ sysargs[t].n = in[t].constraints.dim[2]
            /\ sysargs[t].m = in[t].constraints.dim[1]
            /\ sysargs[t].nu = in[t].nu
            /\ sysargs[t].maxpts = in[t].maxpts
            /\ sysargs[t].abseps = in[t].abseps
            /\ in[t].op = "mvdist" => sysargs[t].releps = in[t].releps
            /\ in[t].op = "mvcrit" => sysargs[t].alpha = in[t].alpha
            /\ in[t].nu = 0 => sysargs[t].nu = 0

\* sys_mvdist is running for a 2 x 1 constraint matrix and nu = 0
ArgsPassedThroughWitness ==
    \E t \in Threads :
        /\ InBoundary(t) /\ sysargs[t].op = "sys_mvdist"
        /\ in[t].constraints.dim = <<2, 1>>
        /\ sysargs[t].m = 2 /\ sysargs[t].n = 1
        /\ in[t].nu = 0 /\ sysargs[t].nu = 0
        /\ sysargs[t].maxpts = 50 /\ sysargs[t].abseps = 51
        /\ sysargs[t].releps = 52


AllIdle == \A t \in Threads : pc[t] = "idle"

\* C15 as stated: a call leaves its inputs unchanged, and once every call
\* has completed, with whatever outcome, the shared state is what it was
\* before the first call.
SharedStateRestored ==
    AllIdle => mutex = [locked |-> FALSE, poisoned |-> FALSE]

\* C15, amended: a call leaves its inputs unchanged, and once every call
\* has completed the gate is unlocked, as before the first call; the
\* gate's poison flag is the one thing that differs: it is set by a call
\* that panics inside the guarded region, by nothing else, and stays set.
FrameEffect ==
    /\ [](AllIdle => ~mutex.locked)
    /\ [][\A t \in Threads :
            (in[t].op # "none" /\ pc'[t] # "idle") => in'[t] = in[t]]_vars
    /\ [][mutex'.poisoned # mutex.poisoned =>
            /\ mutex'.poisoned
            /\ \E t \in Threads :
                  pc[t] = "unwind" /\ pc'[t] = "done" /\ ret'[t] = Panicked]_vars

\* every call has completed, one of them by a panic inside the guarded
\* region: the gate is unlocked and poisoned
FrameEffectWitness ==
    /\ AllIdle
    /\ ~mutex.locked
    /\ mutex.poisoned


\* C16: the gate is one instance for the life of the process, created on
\* first use: whatever threads make their first call together, the
\* initialiser runs once, no thread takes the gate before it has run, and
\* the instance is never replaced.
SingleGate ==
    /\ [](/\ lazy.inits <= 1
          /\ lazy.state = "init" <=> lazy.inits = 1
          /\ Cardinality({t \in Threads : pc[t] = "init"}) <= 1
          /\ \A t \in Threads :
                (Held(t) \/ pc[t] \in Guarded) => lazy.inits = 1)
    /\ [][lazy.state = "init" => lazy' = lazy]_vars

\* two threads made their first call together: one ran the initialiser
\* and holds the gate it built, the other waits for that gate
SingleGateWitness ==
    \E t, u \in Threads :
        /\ t # u
        /\ lazy.inits = 1
        /\ ~mutex.poisoned
        /\ Held(t) /\ pc[t] = "sys"
        /\ pc[u] = "lock"


InCall(t) == pc[t] \notin {"idle", "done"}

\* C13: when every boundary call terminates and each thread makes finitely
\* many calls, under fair scheduling every call that has started comes to
\* its end, with a result or with its panic leaving the function, also
\* after the gate was poisoned: no caller waits for the gate for ever.
EveryCallEnds == \A t \in Threads : InCall(t) ~> (pc[t] = "done")

\* a caller waits for the gate while its holder is panicking inside the
\* boundary call's guarded region
EveryCallEndsWitness ==
    \E t, u \in Threads :
        /\ t # u
        /\ pc[t] = "lock" /\ lazy.state = "init"
        /\ pc[u] = "unwind" /\ Held(u) /\ mutex.locked

====
